---- MODULE Spec2Model ----
(***************************************************************************)
(* A model of step-stone's task core: the Task entity (src/src/task.py)    *)
(* with its dictionary serialization, the update sanitizer and the MongoDB *)
(* gateway (src/src/db_connector.py).                                      *)
(*                                                                         *)
(* Python values are tagged records:                                       *)
(*   [t |-> "none"]                       None                             *)
(*   [t |-> "str", v |-> s]               a str that is no ISO-8601 text   *)
(*   [t |-> "isostr", wall, aware, off]   a str holding ISO-8601 text      *)
(*   [t |-> "int", n |-> n]               an int                           *)
(*   [t |-> "enum", cls, name]            a Status or Priority member      *)
(*   [t |-> "dt", wall, tz, off]          a datetime; wall is the local    *)
(*                                        clock reading in microseconds,   *)
(*                                        tz one of naive/utc/fixed/named, *)
(*                                        off the UTC offset of an aware   *)
(*                                        value (0 for a naive one)        *)
(* A dict, a stored document and a Task's fields are functions from key    *)
(* strings to such values.                                                 *)
(***************************************************************************)
EXTENDS Integers, FiniteSets, Sequences, TLC

VARIABLES
    store,      \* the collection: the set of stored documents (dicts with an "_id")
    cur,        \* the Task object the caller holds (ui.py's current_task_state), or NoTask
    now,        \* the last reading of the system clock, datetime.now(timezone.utc)
    nextId,     \* how many uuid4 identifiers have been generated
    nUpdates,   \* how many update_task calls have reached the collection
    added,      \* the Tasks add_task has inserted, each until an update_task or a
                \* delete_task names its id
    last        \* the last operation: its name, arguments, result and store calls

vars == <<store, cur, now, nextId, nUpdates, added, last>>

----------------------------------------------------------------------------
(* Bounds of the model *)

MaxClock == 1
MaxIds == 2
MaxUpdates == 1
MaxSubtaskIds == 2

----------------------------------------------------------------------------
(* Values *)

None == [t |-> "none"]
Str(s) == [t |-> "str", v |-> s]
IntV(n) == [t |-> "int", n |-> n]
Enum(c, n) == [t |-> "enum", cls |-> c, name |-> n]
Dt(w, z, o) == [t |-> "dt", wall |-> w, tz |-> z, off |-> o]

StatusNames == {"TODO", "IN_PROGRESS", "COMPLETED"}
PriorityNames == {"LOW", "MEDIUM", "HIGH", "TOP"}

\* The offset of the machine's local zone, which astimezone() gives a naive value.
LocalUtcOffset == 1

IsDatetime(v) == v.t = "dt"
IsEnum(v) == v.t = "enum"
IsAware(d) == d.tz # "naive"

\* bool(value), as `if self.due_date` and `and value` use it.
Truthy(v) ==
    CASE v.t = "none" -> FALSE
      [] v.t = "str" -> v.v # ""
      [] v.t = "int" -> v.n # 0
      [] OTHER -> TRUE

\* The UTC instant of an aware datetime.
Instant(d) == d.wall - d.off

\* datetime.__eq__: aware values are equal when they are the same instant, naive
\* values when the wall clocks agree, and an aware value never equals a naive one.
DtEq(a, b) ==
    IF IsAware(a) /\ IsAware(b) THEN Instant(a) = Instant(b)
    ELSE IF ~IsAware(a) /\ ~IsAware(b) THEN a.wall = b.wall
    ELSE FALSE

\* a <= b on datetimes; comparing an aware with a naive value raises, which is
\* no evidence of order.
DtLe(a, b) ==
    IF IsAware(a) /\ IsAware(b) THEN Instant(a) <= Instant(b)
    ELSE IF ~IsAware(a) /\ ~IsAware(b) THEN a.wall <= b.wall
    ELSE FALSE

\* a < b on datetimes.
DtLt(a, b) == DtLe(a, b) /\ ~DtEq(a, b)

\* value == other in Python, for the values of the model.
PyEq(a, b) ==
    IF IsDatetime(a) /\ IsDatetime(b) THEN DtEq(a, b) ELSE a = b

\* datetime.isoformat(): the wall clock, and the offset when the value is aware.
IsoFormat(d) ==
    [t |-> "isostr", wall |-> d.wall, aware |-> IsAware(d), off |-> d.off]

\* str(value) as from_dict applies it to due_date: a str is itself, and a
\* datetime prints as its ISO text with a space for the T, which parses alike.
StrOf(v) == IF IsDatetime(v) THEN IsoFormat(v) ELSE v

\* Whether datetime.fromisoformat(s) parses s (it raises on anything else).
IsoParses(s) == s.t = "isostr"

\* datetime.fromisoformat(s): an offset becomes a fixed-offset zone, +00:00
\* becomes timezone.utc, no offset a naive value.
FromIsoFormat(s) ==
    Dt(s.wall,
       IF ~s.aware THEN "naive" ELSE IF s.off = 0 THEN "utc" ELSE "fixed",
       IF s.aware THEN s.off ELSE 0)

\* value.astimezone(timezone.utc): the same instant on the UTC wall clock; a
\* naive value is taken to be local time.
AsTimezoneUtc(d) ==
    Dt(IF IsAware(d) THEN Instant(d) ELSE d.wall - LocalUtcOffset, "utc", 0)

\* datetime.now(timezone.utc)
NowUtc(clock) == Dt(clock, "utc", 0)

\* The n-th identifier str(uuid.uuid4()) returns.
Uuid(n) == Str("uuid-" \o ToString(n))

----------------------------------------------------------------------------
(* The Task entity: src/src/task.py *)

\* The dataclass fields with init=True, and those with init=False.
InitFields ==
    {"title", "body", "parent_id", "status", "priority", "due_date", "estimated_time"}
\* The field that holds a Task's identity, and the one that holds its creation time.
IdKey == "_id"
CreatedAtKey == "_created_at"
AuditFields == {IdKey, CreatedAtKey, "_updated_at"}
TaskFields == InitFields \cup AuditFields

NoTask == [t |-> "notask"]

\* A dataclass whose optional fields all default to None.
FieldDefaultNone(k) == None

\* The defaults of the dataclass's optional fields (title has none).
FieldDefault(k) ==
    CASE k = "body" -> Str("")
      [] k = "parent_id" -> None
      [] k = "status" -> Enum("Status", "TODO")
      [] k = "priority" -> Enum("Priority", "MEDIUM")
      [] k = "due_date" -> None
      [] k = "estimated_time" -> IntV(0)

\* __post_init__ reading the clock once for each timestamp, the later reading
\* going to _created_at.
PostInitTwoReadings(task, clock) ==
    [task EXCEPT !["_created_at"] = NowUtc(clock + 1), !["_updated_at"] = NowUtc(clock)]

\* __post_init__: both audit timestamps are the one reading of the clock.
PostInit(task, clock) ==
    [task EXCEPT !["_created_at"] = NowUtc(clock), !["_updated_at"] = NowUtc(clock)]

\* Task(**args): args gives title and any of the optional fields; id is the
\* identifier the default factory draws.
NewTask(args, id, clock) ==
    PostInit([k \in TaskFields |->
                 IF k \in DOMAIN args THEN args[k]
                 ELSE IF k = "_id" THEN id
                 ELSE IF k \in AuditFields THEN None
                 ELSE FieldDefault(k)],
             clock)

\* mark_updated() touching the creation timestamp as well.
MarkUpdatedBoth(task, clock) ==
    [task EXCEPT !["_created_at"] = NowUtc(clock), !["_updated_at"] = NowUtc(clock)]

\* mark_updated(): _updated_at becomes the current reading of the clock.
MarkUpdatedTask(task, clock) == [task EXCEPT !["_updated_at"] = NowUtc(clock)]

\* to_dict() writing due_date without its UTC offset.
ToDictDropOffset(task) ==
    [k \in TaskFields |->
        CASE k \in {"status", "priority"} -> Str(task[k].name)
          [] k = "due_date" ->
                IF Truthy(task[k])
                THEN [IsoFormat(task[k]) EXCEPT !.aware = FALSE, !.off = 0]
                ELSE task[k]
          [] k \in {"_created_at", "_updated_at"} -> IsoFormat(task[k])
          [] OTHER -> task[k]]

\* to_dict(): asdict, then the enums by name and the timestamps as ISO text;
\* due_date only when it is truthy.
ToDict(task) ==
    [k \in TaskFields |->
        CASE k \in {"status", "priority"} -> Str(task[k].name)
          [] k = "due_date" ->
                IF Truthy(task[k]) THEN IsoFormat(task[k]) ELSE task[k]
          [] k \in {"_created_at", "_updated_at"} -> IsoFormat(task[k])
          [] OTHER -> task[k]]

\* The pieces of text a value contributes to an f-string: str() of an enum
\* member is its class, a dot and its name; any other value is one piece.
Pieces(v) ==
    IF IsEnum(v) THEN << Str(v.cls), Str("."), Str(v.name) >> ELSE << v >>

\* str(task): the labels of __str__ and the pieces of the six fields it
\* shows, in order.
TaskStr(task) ==
    << Str("Task Title: ") >> \o Pieces(task["title"])
       \o << Str("\nBody: ") >> \o Pieces(task["body"])
       \o << Str("\nStatus: ") >> \o Pieces(task["status"])
       \o << Str("\nPriority: ") >> \o Pieces(task["priority"])
       \o << Str("\nDue Date: ") >> \o Pieces(task["due_date"])
       \o << Str("\nEstimated time: ") >> \o Pieces(task["estimated_time"])

\* Status[value] / Priority[value]: the member of that name, or KeyError.
IsMemberName(v, names) == v.t = "str" /\ v.v \in names

\* Whether from_dict(data) raises: no title for __init__, an enum value that is
\* no member name, a truthy due_date whose str() is no ISO text, or an audit
\* timestamp that is no ISO str.
FromDictRaises(data) ==
    \/ "title" \notin DOMAIN data
    \/ "status" \in DOMAIN data /\ ~IsMemberName(data["status"], StatusNames)
    \/ "priority" \in DOMAIN data /\ ~IsMemberName(data["priority"], PriorityNames)
    \/ /\ "due_date" \in DOMAIN data
       /\ Truthy(data["due_date"])
       /\ ~IsoParses(StrOf(data["due_date"]))
    \/ \E k \in {"_created_at", "_updated_at"} :
          k \in DOMAIN data /\ ~IsoParses(data[k])

\* The init_data from_dict builds: the init fields present in data, converted.
InitData(data) ==
    [k \in InitFields \cap DOMAIN data |->
        CASE k = "status" -> Enum("Status", data[k].v)
          [] k = "priority" -> Enum("Priority", data[k].v)
          [] k = "due_date" /\ Truthy(data[k]) -> FromIsoFormat(StrOf(data[k]))
          [] OTHER -> data[k]]

\* from_dict(data) that leaves the audit fields the constructor generated.
FromDictFreshAudit(data, id, clock) == NewTask(InitData(data), id, clock)

\* from_dict(data), when it does not raise: a Task built from init_data, whose
\* audit fields are then overridden by those data holds.
FromDict(data, id, clock) ==
    LET new_task == NewTask(InitData(data), id, clock)
    IN  [k \in TaskFields |->
            IF k \in AuditFields /\ k \in DOMAIN data
            THEN IF k = "_id" THEN data[k] ELSE FromIsoFormat(data[k])
            ELSE new_task[k]]

\* Task.__eq__ (the dataclass's): the fields are compared pairwise with ==.
TaskEq(a, b) == \A k \in TaskFields : PyEq(a[k], b[k])

----------------------------------------------------------------------------
(* The document store: the pymongo collection the gateway calls *)

EmptyDict == [k \in {} |-> None]

\* How the collection keeps a value: a datetime is kept as a UTC date and read
\* back naive (a naive one is taken to be UTC already); the rest as they are.
Bson(v) == IF IsDatetime(v) THEN Dt(Instant(v), "naive", 0) ELSE v
BsonDoc(d) == [k \in DOMAIN d |-> Bson(d[k])]

\* find_one's answer when no document matches.
NoDoc == [t |-> "nodoc"]

StoredIds(docs) == {d["_id"] : d \in docs}

\* find_one({"_id": id})
FindOne(docs, id) ==
    IF id \in StoredIds(docs)
    THEN CHOOSE d \in docs : d["_id"] = id
    ELSE NoDoc

\* insert_one(doc), which raises DuplicateKeyError on a stored _id.
InsertOneRaises(docs, doc) == doc["_id"] \in StoredIds(docs)
InsertOne(docs, doc) == docs \cup {BsonDoc(doc)}

\* A whole-document replace (replace_one) where update_one's $set was meant.
ReplaceFields(d, fields) ==
    [k \in {"_id"} \cup DOMAIN fields |->
        IF k \in DOMAIN fields THEN Bson(fields[k]) ELSE d[k]]

\* The document update_one's {"$set": fields} makes of d: the named fields are
\* set, the others stay.
SetFields(d, fields) ==
    [k \in DOMAIN d \cup DOMAIN fields |->
        IF k \in DOMAIN fields THEN Bson(fields[k]) ELSE d[k]]

\* update_one(filter={"_id": id}, update={"$set": fields}): the collection after.
UpdateOne(docs, id, fields) ==
    {IF d["_id"] = id THEN SetFields(d, fields) ELSE d : d \in docs}

\* update_one's matched_count, read where modified_count was meant.
MatchedCount(docs, id, fields) == Cardinality({d \in docs : d["_id"] = id})

\* update_one's modified_count: 1 when a document matched and the $set changed it.
ModifiedCount(docs, id, fields) ==
    Cardinality({d \in docs : d["_id"] = id /\ SetFields(d, fields) # d})

\* delete_one({"_id": id}): the collection after, and deleted_count.
\* A delete that takes the children of the document with it.
DeleteOneCascade(docs, id) == {d \in docs : d["_id"] # id /\ d["parent_id"] # id}

DeleteOne(docs, id) == {d \in docs : d["_id"] # id}
DeletedCount(docs, id) == Cardinality({d \in docs : d["_id"] = id})

----------------------------------------------------------------------------
(* The update sanitizer and the gateway: src/src/db_connector.py *)

\* The keys _prepare_updates skips.
IgnoredKeys == {"_id", "created_at"}

\* _prepare_updates(updates)
PrepareUpdates(updates) ==
    [k \in DOMAIN updates \ IgnoredKeys |->
        IF IsEnum(updates[k]) THEN Str(updates[k].name)
        ELSE IF IsDatetime(updates[k]) THEN AsTimezoneUtc(updates[k])
        ELSE updates[k]]

\* `not prepared_updates`
IsEmptyDict(d) == DOMAIN d = {}

\* update_task's result: False on an empty sanitized payload, else whether
\* modified_count is 1.
UpdateTaskResult(docs, id, updates) ==
    IF IsEmptyDict(PrepareUpdates(updates)) THEN FALSE
    ELSE ModifiedCount(docs, id, PrepareUpdates(updates)) = 1

\* The collection after update_task(id, updates).
UpdateTaskStore(docs, id, updates) ==
    IF IsEmptyDict(PrepareUpdates(updates)) THEN docs
    ELSE UpdateOne(docs, id, PrepareUpdates(updates))

\* update_task without its early return on an empty sanitized payload.
UpdateTaskCallsAlways(updates) == 1

\* The number of calls update_task makes on the collection.
UpdateTaskCalls(updates) == IF IsEmptyDict(PrepareUpdates(updates)) THEN 0 ELSE 1

\* delete_task returning the result's acknowledged flag.
DeleteTaskAcknowledged(docs, id) == TRUE

\* delete_task's result.
DeleteTaskResult(docs, id) == DeletedCount(docs, id) = 1

\* Whether get_task(id) ends in its except branch: find_one found nothing (and
\* from_dict(None) raises) or from_dict raises on the document.
GetTaskFails(docs, id) ==
    \/ FindOne(docs, id) = NoDoc
    \/ FromDictRaises(FindOne(docs, id))

\* get_task swallowing its failure without a word.
GetTaskSilent(docs, id) == 0

\* The lines get_task prints: one, in its except branch.
GetTaskDiagnostics(docs, id) == IF GetTaskFails(docs, id) THEN 1 ELSE 0

\* The orders in which a cursor of find({}) can yield the documents: no sort
\* is asked for, so the order is the collection's to choose.
ScanOrders(docs) ==
    {order \in [1..Cardinality(docs) -> docs] :
        \A i, j \in 1..Cardinality(docs) : order[i] = order[j] => i = j}

\* The position of the first document of the scan on which from_dict raises,
\* or one past the end of the scan.
FirstFailure(order) ==
    IF \E i \in 1..Len(order) : FromDictRaises(order[i])
    THEN CHOOSE i \in 1..Len(order) :
            /\ FromDictRaises(order[i])
            /\ \A j \in 1..(i - 1) : ~FromDictRaises(order[j])
    ELSE Len(order) + 1

\* get_all_tasks' result: the loop runs inside one try, so the Tasks appended
\* before the first document that fails are what is returned.
GetAllTasksResult(order, id, clock) ==
    [i \in 1..(FirstFailure(order) - 1) |-> FromDict(order[i], id, clock)]

\* The lines get_all_tasks prints: one, when a document fails.
GetAllTasksDiagnostics(order) == IF FirstFailure(order) <= Len(order) THEN 1 ELSE 0

\* add_task answering True whatever the collection acknowledged.
AddTaskAlwaysTrue(ack) == "true"

\* add_task's result: results.acknowledged.
AddTaskResult(ack) == IF ack THEN "true" ELSE "false"

----------------------------------------------------------------------------
(* The LLM client: the response text and its conversion *)

\* response.text: text that is no JSON, a JSON document that is no array, or
\* a JSON array of objects.
NotJson == [t |-> "notjson"]
JsonObject == [t |-> "object"]
JsonArray(elems) == [t |-> "array", elems |-> elems]

\* The fields of TaskInput, and the defaults of those that have one.
TaskInputFields == {"title", "body", "due_date", "estimated_time"}
TaskInputDefault(k) ==
    CASE k = "body" -> Str("")
      [] k = "due_date" -> None
      [] k = "estimated_time" -> IntV(0)

\* Whether TypeAdapter(List[TaskInput]).validate_json(text) raises: the text
\* is no JSON array, an element lacks the required title, or its due_date is
\* neither null nor ISO text. A key that is no field of TaskInput is ignored
\* (BaseModel's default), not an error.
ValidateJsonRaises(response) ==
    \/ response.t # "array"
    \/ \E i \in 1..Len(response.elems) :
          \/ "title" \notin DOMAIN response.elems[i]
          \/ /\ "due_date" \in DOMAIN response.elems[i]
             /\ response.elems[i]["due_date"] # None
             /\ ~IsoParses(response.elems[i]["due_date"])

\* task_input_model.model_dump(): the four fields of TaskInput, each with the
\* element's value or its default, due_date parsed to a datetime.
ModelDump(elem) ==
    [k \in TaskInputFields |->
        IF k \notin DOMAIN elem THEN TaskInputDefault(k)
        ELSE IF k = "due_date" /\ IsoParses(elem[k]) THEN FromIsoFormat(elem[k])
        ELSE elem[k]]

\* Whether _convert_response raises: in validation, or in a from_dict.
ConvertResponseRaises(response) ==
    \/ ValidateJsonRaises(response)
    \/ \E i \in 1..Len(response.elems) : FromDictRaises(ModelDump(response.elems[i]))

\* _convert_response handing every Task the same identifier.
ConvertResponseSameId(response, n, readings) ==
    [i \in 1..Len(response.elems) |->
        FromDict(ModelDump(response.elems[i]), Uuid(n + 1), readings[i])]

\* _convert_response(response), when it does not raise: one from_dict per
\* validated element, each drawing its identifier (the ones after the n drawn
\* so far) and reading the clock.
ConvertResponse(response, n, readings) ==
    [i \in 1..Len(response.elems) |->
        FromDict(ModelDump(response.elems[i]), Uuid(n + i), readings[i])]

\* generate_subtasks saving the elements that validate and dropping the rest.
SubtasksToSavePartial(response, n, readings) ==
    IF response.t # "array" THEN <<>>
    ELSE ConvertResponse(
            JsonArray(SelectSeq(response.elems, LAMBDA e : "title" \in DOMAIN e)),
            n, readings)

\* The subtasks generate_subtasks goes on to save: those request_subtask
\* returns, and none when it raises (the except branch is past the loop).
SubtasksToSave(response, n, readings) ==
    IF ConvertResponseRaises(response) THEN <<>>
    ELSE ConvertResponse(response, n, readings)

\* The documents add_task inserts for a list of Tasks.
TaskDocs(tasks) == {BsonDoc(ToDict(tasks[i])) : i \in 1..Len(tasks)}

----------------------------------------------------------------------------
(* Inputs *)

\* The Task of tests/test_mongodb_connector.py's sample_task fixture, with its
\* due date in a named zone.
SampleTaskArgs ==
    [title |-> Str("Test Task"), body |-> Str("This is a body"),
     priority |-> Enum("Priority", "HIGH"), due_date |-> Dt(2, "named", 1)]

\* Constructor arguments: the fixtures of tests/test_task.py and
\* tests/test_mongodb_connector.py, with due dates absent, naive, UTC and zoned,
\* and arguments with an empty title and with a negative estimate.
ConstructInputs ==
    { [title |-> Str("Buy Groceries")],
      [title |-> Str("")],
      [title |-> Str("Negative"), estimated_time |-> IntV(-5)],
      [title |-> Str("Write Report"), body |-> Str("Draft"),
       status |-> Enum("Status", "IN_PROGRESS"), priority |-> Enum("Priority", "HIGH"),
       due_date |-> Dt(1, "utc", 0), estimated_time |-> IntV(120)],
      [title |-> Str("Review PR"), parent_id |-> Str("parent"),
       status |-> Enum("Status", "COMPLETED"), priority |-> Enum("Priority", "TOP"),
       due_date |-> Dt(1, "naive", 0)],
      [title |-> Str("Zoned"), priority |-> Enum("Priority", "LOW"),
       due_date |-> Dt(2, "fixed", 1)],
      SampleTaskArgs }

\* Documents handed to from_dict by a caller: the UI's form data, the model
\* dump of a TaskInput, and documents carrying audit fields.
DocumentInputs ==
    { [title |-> Str("Form"), body |-> Str(""), due_date |-> Str(""),
       estimated_time |-> IntV(0), status |-> Str("TODO"),
       priority |-> Str("MEDIUM"), parent_id |-> None],
      [title |-> Str("Subtask 1"), body |-> Str(""), due_date |-> None,
       estimated_time |-> IntV(0)],
      [title |-> Str("Old"), _id |-> Str("doc-1"),
       _created_at |-> IsoFormat(Dt(2, "utc", 0)),
       _updated_at |-> IsoFormat(Dt(1, "fixed", 1))],
      [title |-> Str("Late"), _updated_at |-> IsoFormat(Dt(MaxClock + 1, "utc", 0))],
      [body |-> Str("no title")],
      [title |-> Str("Bad"), status |-> Str("DONE")],
      [title |-> Str("Bad"), priority |-> Str("URGENT")],
      [title |-> Str(""), estimated_time |-> IntV(-1)] }

\* Updates mappings handed to update_task: those of the connector's tests, and
\* mappings naming the audit fields.
UpdatesInputs ==
    { EmptyDict,
      [_id |-> Str("new_id_attempt"), created_at |-> Str("new_date_attempt")],
      [_id |-> Str("should_be_removed"), created_at |-> Str("should_also_be_removed"),
       title |-> Str("New Title")],
      [title |-> Str("A New Title"), status |-> Enum("Status", "IN_PROGRESS"),
       due_date |-> Dt(2, "fixed", 1)],
      [priority |-> Enum("Priority", "LOW"), due_date |-> Dt(1, "naive", 0)],
      [_created_at |-> IsoFormat(Dt(MaxClock + 1, "utc", 0))],
      [_updated_at |-> Dt(1, "utc", 0)] }

\* The form data create_or_update_task builds for a new Task under a parent.
FormData(parent_id) ==
    [title |-> Str("Child Task"), body |-> Str(""), due_date |-> None,
     estimated_time |-> IntV(0), status |-> Str("TODO"),
     priority |-> Str("MEDIUM"), parent_id |-> parent_id]

\* The forms a user submits: a Task with no parent, or under a stored Task.
FormInputs == {FormData(p) : p \in {None} \cup StoredIds(store)}

\* The texts the model answers with: the arrays of tests/test_llm_api.py, an
\* empty array, elements with a due date, without a title and with keys that
\* are no fields of TaskInput, a JSON object and text that is no JSON.
ResponseInputs ==
    { JsonArray(<< >>),
      JsonArray(<< [title |-> Str("Subtask 1"), body |-> Str("Description 1")],
                   [title |-> Str("Subtask 2"), body |-> Str("Description 2")] >>),
      JsonArray(<< [title |-> Str("Dated"), due_date |-> IsoFormat(Dt(2, "utc", 0)),
                    estimated_time |-> IntV(30)] >>),
      JsonArray(<< [title |-> Str("Child Task"), body |-> Str("Child description")],
                   [body |-> Str("no title")] >>),
      JsonArray(<< [title |-> Str("Extra"), status |-> Str("COMPLETED"),
                    priority |-> Str("TOP"), _id |-> Str("model-id"),
                    parent_id |-> Str("model-parent")] >>),
      JsonObject,
      NotJson }

\* The number of Tasks a response asks _convert_response to construct.
ResponseLen(response) == IF response.t = "array" THEN Len(response.elems) ELSE 0

\* The answers under which the UI's handler is run: the two-element arrays
\* and the text that is no JSON.
GenerateResponseInputs ==
    {r \in ResponseInputs : r.t = "notjson" \/ ResponseLen(r) = 2}

\* The clock readings of n from_dict calls in a row, none earlier than the
\* one before it.
ReadingSeqs(n) ==
    {r \in [1..n -> now..MaxClock] : \A i \in 1..(n - 1) : r[i] <= r[i + 1]}

\* The identifiers a caller asks about: a stored one, that of the Task it
\* holds (stored or not), or, holding none, one that names nothing.
IdInputs ==
    StoredIds(store) \cup (IF cur = NoTask THEN {Str("not_found_id")} ELSE {cur["_id"]})

----------------------------------------------------------------------------
(* The state machine *)

\* The record of an operation: its name, the id and the mapping it was given,
\* what it returned ("raised" when it raised), the calls it made on the
\* collection, the mapping (the sanitizer) or the Task (get_task) it returned,
\* the Tasks it returned as a list, the documents its cursor yielded, the
\* diagnostics it printed, what the
\* collection acknowledged of its write, the subtasks it counted as saved,
\* and whether it names the id of a delete_task that returned True just before.
Op(name, id, arg, ret, calls) ==
    [op |-> name, id |-> id, arg |-> arg, ret |-> ret, calls |-> calls,
     out |-> EmptyDict, task |-> NoTask, tasks |-> <<>>, scan |-> <<>>,
     diag |-> 0, ack |-> TRUE, saved |-> 0,
     afterDelete |-> last.op = "delete_task" /\ last.ret = "true" /\ last.id = id]

\* The Tasks a gateway caller constructs, and the updates mappings it passes.
GatewayConstructInputs == {SampleTaskArgs}
GatewayUpdatesInputs ==
    {u \in UpdatesInputs :
        "priority" \notin DOMAIN u /\ ~({"_id", "title"} \subseteq DOMAIN u)}

Init ==
    /\ store = {}
    /\ cur = NoTask
    /\ now = 0
    /\ nextId = 0
    /\ nUpdates = 0
    /\ added = {}
    /\ last = [op |-> "init", id |-> None, arg |-> EmptyDict, ret |-> "none",
               calls |-> 0, out |-> EmptyDict, task |-> NoTask, tasks |-> <<>>,
               scan |-> <<>>, diag |-> 0, saved |-> 0, ack |-> TRUE, afterDelete |-> FALSE]

\* A reading of the system clock: not earlier than the reading before it.
ClockReadings == now..MaxClock

\* Task(title, ...), constructed when the clock reads t.
Construct(args, t) ==
    /\ nextId < MaxIds
    /\ cur' = NewTask(args, Uuid(nextId + 1), t)
    /\ now' = t
    /\ nextId' = nextId + 1
    /\ last' = Op("construct", None, args, "task", 0)
    /\ UNCHANGED <<store, nUpdates, added>>

\* task.mark_updated(), called when the clock reads t.
MarkUpdated(t) ==
    /\ cur # NoTask
    /\ cur' = MarkUpdatedTask(cur, t)
    /\ now' = t
    /\ last' = Op("mark_updated", cur["_id"], EmptyDict, "none", 0)
    /\ UNCHANGED <<store, nextId, nUpdates, added>>

\* Task.from_dict(data). The identifier the constructor draws is kept only
\* when data names none; one that is overridden at once is not counted.
FromDocument(data, t) ==
    /\ "_id" \in DOMAIN data \/ FromDictRaises(data) \/ nextId < MaxIds
    /\ IF FromDictRaises(data)
       THEN /\ last' = Op("from_dict", None, data, "raised", 0)
            /\ UNCHANGED <<cur, now, nextId>>
       ELSE /\ cur' = FromDict(data, Uuid(nextId + 1), t)
            /\ now' = t
            /\ nextId' = IF "_id" \in DOMAIN data THEN nextId ELSE nextId + 1
            /\ last' = Op("from_dict", None, data, "task", 0)
    /\ UNCHANGED <<store, nUpdates, added>>

\* db.add_task(task): on a stored _id nothing is inserted, and insert_one
\* raises when the write is acknowledged; else the document is inserted. The
\* result is what the collection acknowledges.
AddTask(ack) ==
    /\ cur # NoTask
    /\ IF InsertOneRaises(store, ToDict(cur))
       THEN /\ last' = [Op("add_task", cur["_id"], ToDict(cur),
                           IF ack THEN "raised" ELSE AddTaskResult(ack), 1)
                           EXCEPT !.ack = ack]
            /\ UNCHANGED <<store, added>>
       ELSE /\ store' = InsertOne(store, ToDict(cur))
            /\ added' = added \cup {cur}
            /\ last' = [Op("add_task", cur["_id"], ToDict(cur), AddTaskResult(ack), 1)
                           EXCEPT !.ack = ack]
    /\ UNCHANGED <<cur, now, nextId, nUpdates>>

\* db.get_task(task_id), when the clock reads t: the Task from_dict constructs
\* reads the clock, and the document's audit fields then override the reading.
GetTask(id, t) ==
    /\ last' = IF GetTaskFails(store, id)
               THEN [Op("get_task", id, EmptyDict, "none", 1)
                        EXCEPT !.diag = GetTaskDiagnostics(store, id)]
               ELSE [Op("get_task", id, EmptyDict, "task", 1)
                        EXCEPT !.task = FromDict(FindOne(store, id), Uuid(nextId + 1), t)]
    /\ UNCHANGED <<store, cur, now, nextId, nUpdates, added>>

\* db.get_all_tasks(), when the clock reads t and the cursor yields order.
GetAllTasks(order, t) ==
    /\ last' = [Op("get_all_tasks", None, EmptyDict, "tasks", 1)
                    EXCEPT !.scan = order,
                           !.tasks = GetAllTasksResult(order, Uuid(nextId + 1), t),
                           !.diag = GetAllTasksDiagnostics(order)]
    /\ UNCHANGED <<store, cur, now, nextId, nUpdates, added>>

\* db.update_task(task_id, updates)
UpdateTask(id, updates) ==
    /\ UpdateTaskCalls(updates) = 0 \/ nUpdates < MaxUpdates
    /\ nUpdates' = nUpdates + UpdateTaskCalls(updates)
    /\ store' = UpdateTaskStore(store, id, updates)
    /\ added' = {t \in added : t["_id"] # id}
    /\ last' = Op("update_task", id, updates,
                  IF UpdateTaskResult(store, id, updates) THEN "true" ELSE "false",
                  UpdateTaskCalls(updates))
    /\ UNCHANGED <<cur, now, nextId>>

\* db.delete_task(task_id)
DeleteTask(id) ==
    /\ store' = DeleteOne(store, id)
    /\ added' = {t \in added : t["_id"] # id}
    /\ last' = Op("delete_task", id, EmptyDict,
                  IF DeleteTaskResult(store, id) THEN "true" ELSE "false", 1)
    /\ UNCHANGED <<cur, now, nextId, nUpdates>>

\* str(task), as _convert_task and the UI's summary call it.
ToStr ==
    /\ cur # NoTask
    /\ last' = [Op("__str__", cur["_id"], EmptyDict, "str", 0)
                    EXCEPT !.out = TaskStr(cur)]
    /\ UNCHANGED <<store, cur, now, nextId, nUpdates, added>>

\* _prepare_updates(updates), called on its own as the connector's tests do.
Sanitize(updates) ==
    /\ last' = [Op("prepare_updates", None, updates, "dict", 0)
                    EXCEPT !.out = PrepareUpdates(updates)]
    /\ UNCHANGED <<store, cur, now, nextId, nUpdates, added>>

\* The gateway and its callers.
Next ==
    \/ \E args \in GatewayConstructInputs : \E t \in ClockReadings : Construct(args, t)
    \/ \E t \in ClockReadings : MarkUpdated(t)
    \/ \E ack \in BOOLEAN : AddTask(ack)
    \/ \E id \in IdInputs : \E t \in ClockReadings : GetTask(id, t)
    \/ \E id \in IdInputs :
          \E updates \in GatewayUpdatesInputs
                            \cup (IF cur = NoTask THEN {} ELSE {ToDict(cur)}) :
             UpdateTask(id, updates)
    \/ \E id \in IdInputs : DeleteTask(id)

Spec == Init /\ [][Next]_vars

\* create_or_update_task with no Task loaded (the form was cleared), when the
\* clock reads t: Task.from_dict(data), then db.add_task of the new Task, which
\* becomes the one the form holds.
CreateTask(data, t, ack) ==
    /\ nextId < MaxIds
    /\ ~FromDictRaises(data)
    /\ cur' = FromDict(data, Uuid(nextId + 1), t)
    /\ now' = t
    /\ nextId' = nextId + 1
    /\ store' = InsertOne(store, ToDict(cur'))
    /\ added' = added \cup {cur'}
    /\ last' = [Op("create_task", cur'["_id"], data, AddTaskResult(ack), 1)
                   EXCEPT !.ack = ack, !.task = cur']
    /\ UNCHANGED nUpdates

\* gemini_api.request_subtask(parent_task) for the Task held, the model
\* answering with response and the from_dict calls reading the clock at
\* readings.
RequestSubtask(response, readings) ==
    /\ cur # NoTask
    /\ nextId + ResponseLen(response) <= 1 + MaxSubtaskIds
    /\ IF ConvertResponseRaises(response)
       THEN /\ last' = Op("request_subtask", cur["_id"], response, "raised", 0)
            /\ UNCHANGED <<now, nextId>>
       ELSE /\ last' = [Op("request_subtask", cur["_id"], response, "tasks", 0)
                           EXCEPT !.tasks = ConvertResponse(response, nextId, readings)]
            /\ nextId' = nextId + Len(response.elems)
            /\ now' = IF Len(response.elems) = 0 THEN now
                      ELSE readings[Len(response.elems)]
    /\ UNCHANGED <<store, cur, nUpdates, added>>

\* generate_subtasks(task_id): get_task of the parent, request_subtask, then
\* add_task of every subtask, the collection acknowledging as acks says; an
\* exception anywhere ends in the handler's except branch.
GenerateSubtasks(id, response, readings, acks) ==
    /\ nextId + ResponseLen(response) <= 1 + MaxSubtaskIds
    /\ IF GetTaskFails(store, id)
       THEN /\ last' = [Op("generate_subtasks", id, response, "parent_not_found", 1)
                           EXCEPT !.diag = GetTaskDiagnostics(store, id)]
            /\ UNCHANGED <<store, now, nextId, added>>
       ELSE LET subtasks == SubtasksToSave(response, nextId, readings)
                n == Len(subtasks)
            IN  /\ store' = store \cup TaskDocs(subtasks)
                /\ added' = added \cup {subtasks[i] : i \in 1..n}
                /\ nextId' = nextId + n
                /\ now' = IF n = 0 THEN now ELSE readings[n]
                /\ last' = [Op("generate_subtasks", id, response,
                               IF ConvertResponseRaises(response) THEN "error"
                               ELSE IF n = 0 THEN "none_generated" ELSE "saved",
                               1 + n)
                               EXCEPT !.tasks = subtasks,
                                      !.saved = Cardinality({i \in 1..n : acks[i]})]
    /\ UNCHANGED <<cur, nUpdates>>

\* The UI's handlers over the gateway and the LLM client.
NextUi ==
    \/ \E data \in FormInputs : \E t \in ClockReadings : \E ack \in BOOLEAN :
          CreateTask(data, t, ack)
    \/ \E response \in ResponseInputs :
          \E readings \in ReadingSeqs(ResponseLen(response)) :
             RequestSubtask(response, readings)
    \/ \E id \in IdInputs : \E response \in GenerateResponseInputs :
          \E readings \in ReadingSeqs(ResponseLen(response)) :
             \E acks \in [1..ResponseLen(response) -> BOOLEAN] :
                GenerateSubtasks(id, response, readings, acks)
    \/ \E id \in IdInputs : DeleteTask(id)

SpecUi == Init /\ [][NextUi]_vars

\* The updates mappings of a caller that sets a status or touches the
\* modification time itself.
ScanUpdatesInputs ==
    { [status |-> Enum("Status", "COMPLETED")],
      [status |-> Str("DONE")],
      [_updated_at |-> Dt(1, "utc", 0)] }

\* The gateway under a caller that lists the collection.
NextScan ==
    \/ \E args \in GatewayConstructInputs : \E t \in ClockReadings : Construct(args, t)
    \/ \E ack \in BOOLEAN : AddTask(ack)
    \/ \E id \in IdInputs : \E updates \in ScanUpdatesInputs : UpdateTask(id, updates)
    \/ \E id \in IdInputs : DeleteTask(id)
    \/ \E order \in ScanOrders(store) : \E t \in ClockReadings : GetAllTasks(order, t)

SpecScan == Init /\ [][NextScan]_vars

\* The gateway under a caller whose every write succeeds: add_task is
\* acknowledged and update_task is called where it returns True.
NextAcknowledged ==
    \/ \E args \in GatewayConstructInputs : \E t \in ClockReadings : Construct(args, t)
    \/ AddTask(TRUE)
    \/ \E id \in IdInputs :
          \E updates \in GatewayUpdatesInputs \cup ScanUpdatesInputs :
             UpdateTaskResult(store, id, updates) /\ UpdateTask(id, updates)
    \/ \E id \in IdInputs : \E t \in ClockReadings : GetTask(id, t)

SpecAcknowledged == Init /\ [][NextAcknowledged]_vars

\* The Task entity and the sanitizer on their own, over every input.
NextTask ==
    \/ \E args \in ConstructInputs : \E t \in ClockReadings : Construct(args, t)
    \/ \E t \in ClockReadings : MarkUpdated(t)
    \/ \E data \in DocumentInputs \cup (IF cur = NoTask THEN {} ELSE {ToDict(cur)}) :
          \E t \in ClockReadings : FromDocument(data, t)
    \/ \E updates \in UpdatesInputs \cup (IF cur = NoTask THEN {} ELSE {ToDict(cur)}) :
          Sanitize(updates)
    \/ ToStr

SpecTask == Init /\ [][NextTask]_vars

----------------------------------------------------------------------------
(* The claims about the Task entity, checked under SpecTask *)

\* createdAt <= updatedAt, for a Task.
Ordered(task) == DtLe(task["_created_at"], task["_updated_at"])

\* C1: from_dict(to_dict(t)) succeeds and equals t in every field, for every
\* Task t: a step that hands from_dict the dictionary to_dict makes of the held
\* Task yields a Task equal to it.
C1_RoundTrip ==
    [][(last'.op = "from_dict" /\ cur # NoTask /\ last'.arg = ToDict(cur))
          => (last'.ret = "task" /\ TaskEq(cur', cur))]_vars

\* A round trip of the sample Task, whose due date came back in a fixed-offset
\* zone for the named one it was constructed with.
C1_Witness ==
    /\ last.op = "from_dict"
    /\ last.ret = "task"
    /\ cur # NoTask
    /\ last.arg = ToDict(cur)
    /\ cur["title"] = Str("Test Task")
    /\ cur["due_date"] = Dt(2, "fixed", 1)

\* C3, as claimed: createdAt <= updatedAt holds of every Task at every moment,
\* those from_dict returns included.
C3_AlwaysOrdered == cur # NoTask => Ordered(cur)

\* C3, amended: the two timestamps are equal after construction; mark_updated
\* keeps createdAt <= updatedAt on a Task whose createdAt is not later than the
\* clock; and a Task from_dict returns has the timestamps of its document: equal
\* ones when the document carries neither, ordered ones exactly when those of a
\* document that carries both are ordered.
C3_OrderedByOrigin ==
    [][/\ last'.op = "construct" => DtEq(cur'["_created_at"], cur'["_updated_at"])
       /\ (last'.op = "mark_updated" /\ DtLe(cur["_created_at"], NowUtc(now')))
             => Ordered(cur')
       /\ (last'.op = "from_dict" /\ last'.ret = "task")
             => /\ DOMAIN last'.arg \cap {"_created_at", "_updated_at"} = {}
                      => DtEq(cur'["_created_at"], cur'["_updated_at"])
                /\ {"_created_at", "_updated_at"} \subseteq DOMAIN last'.arg
                      => (Ordered(cur') <=>
                            DtLe(FromIsoFormat(last'.arg["_created_at"]),
                                 FromIsoFormat(last'.arg["_updated_at"])))]_vars

\* A Task that mark_updated has given a later updatedAt than its createdAt.
C3_Witness ==
    /\ last.op = "mark_updated"
    /\ cur # NoTask
    /\ DtLt(cur["_created_at"], cur["_updated_at"])

\* C4, as claimed: mark_updated leaves updatedAt strictly greater than it was,
\* and every other field as it was.
C4_StrictlyLater ==
    [][last'.op = "mark_updated"
          => /\ DtLt(cur["_updated_at"], cur'["_updated_at"])
             /\ \A k \in TaskFields \ {"_updated_at"} : cur'[k] = cur[k]]_vars

\* C4, amended: mark_updated sets updatedAt to the clock's reading, which is
\* strictly greater than the value before exactly when the clock has passed that
\* value, and leaves createdAt and every other field as it was.
C4_SetToClock ==
    [][last'.op = "mark_updated"
          => /\ cur'["_updated_at"] = NowUtc(now')
             /\ DtLt(cur["_updated_at"], cur'["_updated_at"])
                   <=> DtLt(cur["_updated_at"], NowUtc(now'))
             /\ \A k \in TaskFields \ {"_updated_at"} : cur'[k] = cur[k]]_vars

\* A mark_updated that moved updatedAt forward, past createdAt.
C4_Witness ==
    /\ last.op = "mark_updated"
    /\ cur # NoTask
    /\ cur["_updated_at"] = NowUtc(now)
    /\ DtLt(cur["_created_at"], cur["_updated_at"])
    /\ cur["title"] = Str("Buy Groceries")

\* C15: from_dict(doc) raises, and returns no Task, whenever doc has no title
\* or gives status or priority a value that is no member name; when it returns
\* a Task, every optional field absent from doc holds its default: body "",
\* parent_id None, status TODO, priority MEDIUM, due_date None,
\* estimated_time 0.
C15_RaisesOrDefaults ==
    [][last'.op = "from_dict"
          => LET doc == last'.arg
                 defaults == [body |-> Str(""), parent_id |-> None,
                              status |-> Enum("Status", "TODO"),
                              priority |-> Enum("Priority", "MEDIUM"),
                              due_date |-> None, estimated_time |-> IntV(0)]
             IN  /\ ( \/ "title" \notin DOMAIN doc
                      \/ /\ "status" \in DOMAIN doc
                         /\ doc["status"] \notin {Str(n) : n \in StatusNames}
                      \/ /\ "priority" \in DOMAIN doc
                         /\ doc["priority"] \notin {Str(n) : n \in PriorityNames} )
                        => (last'.ret = "raised" /\ cur' = cur)
                 /\ last'.ret = "task"
                        => \A k \in DOMAIN defaults \ DOMAIN doc :
                              cur'[k] = defaults[k]]_vars

\* A from_dict of a document with a title and a priority that is no member
\* name, which raised.
C15_Witness ==
    /\ last.op = "from_dict"
    /\ "title" \in DOMAIN last.arg
    /\ "priority" \in DOMAIN last.arg
    /\ last.arg["priority"] = Str("URGENT")
    /\ last.ret = "raised"

\* C16, as claimed: no Task with an empty title or a negative estimated_time
\* comes out of the constructor or of from_dict.
C16_ValidTasksOnly ==
    cur # NoTask => (cur["title"] # Str("") /\ cur["estimated_time"].n >= 0)

\* C22, as claimed: str(t) contains the first 8 characters of t's id, t's
\* title, the name of t's status, and the text "Task(".
C22_StrShowsIdentity ==
    last.op = "__str__"
        => LET shown == {last.out[i] : i \in 1..Len(last.out)}
           IN  /\ [t |-> "prefix", of |-> cur["_id"], n |-> 8] \in shown
               /\ cur["title"] \in shown
               /\ Str(cur["status"].name) \in shown
               /\ Str("Task(") \in shown

\* C6, as claimed: _prepare_updates(u) holds exactly the keys of u other than
\* the identity key and the creation-time key; a Status or Priority value has
\* become its name, a datetime the same instant in UTC, and any other value is
\* as it was.
C6_SanitizerContract ==
    last.op = "prepare_updates"
        => /\ DOMAIN last.out = DOMAIN last.arg \ {IdKey, CreatedAtKey}
           /\ \A k \in DOMAIN last.out :
                 IF IsEnum(last.arg[k]) THEN last.out[k] = Str(last.arg[k].name)
                 ELSE IF IsDatetime(last.arg[k])
                 THEN /\ last.out[k].tz = "utc"
                      /\ Instant(last.out[k]) =
                            IF IsAware(last.arg[k]) THEN Instant(last.arg[k])
                            ELSE last.arg[k].wall - LocalUtcOffset
                 ELSE last.out[k] = last.arg[k]

----------------------------------------------------------------------------
(* The claims about the gateway, checked under Spec *)

\* C2: get_task(id), issued after add_task(t) inserted t under that id with no
\* update_task or delete_task of the id since, returns a Task equal to t in
\* every field, identity and timestamps included.
C2_GetAfterAdd ==
    last.op = "get_task"
        => \A t \in added :
              t["_id"] = last.id => (last.ret = "task" /\ TaskEq(last.task, t))

\* A get_task that returned the Task added under its id, read when the clock
\* had moved on from the Task's construction.
C2_Witness ==
    /\ last.op = "get_task"
    /\ last.ret = "task"
    /\ \E t \in added : t["_id"] = last.id /\ DtLt(t["_created_at"], NowUtc(now))
    /\ Cardinality(store) = 2

\* C5, as claimed: update_task changes neither the identity nor the creation
\* timestamp of any stored document, whatever the updates mapping.
C5_IdentityAndCreationKept ==
    [][last'.op = "update_task"
          => \A d \in store :
                \E e \in store' :
                    e[IdKey] = d[IdKey] /\ e[CreatedAtKey] = d[CreatedAtKey]]_vars

\* C7: when the sanitizer drops every key of the updates mapping (the mapping
\* is empty or names only keys the sanitizer ignores), update_task returns
\* False, makes no call on the collection and leaves it as it was.
C7_NothingToPersist ==
    [][(last'.op = "update_task" /\ IsEmptyDict(PrepareUpdates(last'.arg)))
          => (last'.ret = "false" /\ last'.calls = 0 /\ store' = store)]_vars

\* An update_task of a stored id with only ignored keys, which returned False.
C7_Witness ==
    /\ last.op = "update_task"
    /\ DOMAIN last.arg = IgnoredKeys
    /\ last.id \in StoredIds(store)
    /\ last.ret = "false"
    /\ last.calls = 0

\* C8: update_task returns True exactly when one stored document was
\* modified, and an update_task or delete_task that returns False has left the
\* collection as it was.
C8_FalseMeansUnchanged ==
    [][/\ last'.op = "update_task"
             => (last'.ret = "true" <=>
                    (Cardinality(store \ store') = 1 /\ StoredIds(store') = StoredIds(store)))
       /\ (last'.op \in {"update_task", "delete_task"} /\ last'.ret = "false")
             => store' = store]_vars

\* An update_task that reached a stored document with the values it already
\* held, and returned False.
C8_Witness ==
    /\ last.op = "update_task"
    /\ last.calls = 1
    /\ last.id \in StoredIds(store)
    /\ last.ret = "false"

\* C9: update_task with a non-empty sanitized payload merges field by field:
\* the document of that id keeps every field, with its value when the payload
\* does not name it, and every other document stays as it was.
C9_PartialMerge ==
    [][(last'.op = "update_task" /\ last'.calls = 1)
          => /\ StoredIds(store') = StoredIds(store)
             /\ \A d \in store :
                   IF d["_id"] # last'.id THEN d \in store'
                   ELSE \E e \in store' :
                           /\ e["_id"] = d["_id"]
                           /\ DOMAIN d \subseteq DOMAIN e
                           /\ \A k \in DOMAIN d \ (DOMAIN last'.arg \ IgnoredKeys) :
                                 e[k] = d[k]]_vars

\* An update_task with the mapping of test_update_task_success that modified
\* one of two stored documents.
C9_Witness ==
    /\ last.op = "update_task"
    /\ last.ret = "true"
    /\ DOMAIN last.arg = {"title", "status", "due_date"}
    /\ Cardinality(store) = 2
    /\ \E d \in store : d["_id"] = last.id /\ d["title"] = Str("A New Title")

\* C10: delete_task returns True exactly when it removed the one document of
\* that id; a delete_task of the same id right after one that returned True
\* returns False, and a get_task of that id returns None.
C10_DeleteOnce ==
    [][/\ last'.op = "delete_task"
             => /\ last'.ret = "true" <=>
                      /\ last'.id \in StoredIds(store)
                      /\ store' = {d \in store : d["_id"] # last'.id}
                      /\ Cardinality(store') = Cardinality(store) - 1
                /\ last'.id \notin StoredIds(store')
       /\ (last.op = "delete_task" /\ last.ret = "true" /\ last'.id = last.id)
             => /\ last'.op = "delete_task" => last'.ret = "false"
                /\ last'.op = "get_task" => last'.ret = "none"]_vars

\* A second delete_task of an id, right after the one that removed its
\* document, which returned False.
C10_Witness ==
    /\ last.op = "delete_task"
    /\ last.afterDelete
    /\ last.ret = "false"

\* C12, as claimed: add_task(task) inserts exactly one document, equal to
\* task.to_dict() and keyed by the task's id, returns True exactly when the
\* collection acknowledges the write, and returns False without raising when
\* it does not.
C12_AddInsertsOne ==
    [][last'.op = "add_task"
          => /\ store' = store \cup {ToDict(cur)}
             /\ Cardinality(store') = Cardinality(store) + 1
             /\ last'.ret = "true" <=> last'.ack
             /\ ~last'.ack => last'.ret = "false"]_vars

\* C12, amended: when no document of the task's id is stored, add_task(task)
\* inserts exactly one document, equal to task.to_dict(), and returns True
\* exactly when the collection acknowledges the write and False, without
\* raising, when it does not. When a document of that id is stored nothing is
\* inserted: an acknowledged write raises, an unacknowledged one returns False.
C12_AddWhenAbsent ==
    [][last'.op = "add_task"
          => IF cur["_id"] \in StoredIds(store)
             THEN /\ store' = store
                  /\ last'.ret = IF last'.ack THEN "raised" ELSE "false"
             ELSE /\ store' = store \cup {ToDict(cur)}
                  /\ Cardinality(store') = Cardinality(store) + 1
                  /\ \E d \in store' : d["_id"] = cur["_id"] /\ d = ToDict(cur)
                  /\ last'.ret = "true" <=> last'.ack
                  /\ ~last'.ack => last'.ret = "false"]_vars

\* An add_task the collection did not acknowledge, which inserted a second
\* document and returned False.
C12_Witness ==
    /\ last.op = "add_task"
    /\ ~last.ack
    /\ last.ret = "false"
    /\ Cardinality(store) = 2
    /\ last.arg \in store

\* C13: get_task(id) for an id that has no stored document returns None
\* without raising, prints exactly one diagnostic and leaves the collection
\* as it was.
C13_MissingIsNone ==
    [][(last'.op = "get_task" /\ last'.id \notin StoredIds(store))
          => (last'.ret = "none" /\ last'.task = NoTask /\ last'.diag = 1
              /\ store' = store)]_vars

\* A get_task of an id no document holds, against a collection that is not
\* empty, which returned None.
C13_Witness ==
    /\ last.op = "get_task"
    /\ last.id \notin StoredIds(store)
    /\ store # {}
    /\ last.ret = "none"
    /\ last.diag = 1

\* C14, as claimed: get_all_tasks returns one Task for every document of the
\* scan that can be reconstructed, in scan order; a document that fails is
\* skipped and the reconstructible documents after it are still returned.
C14_ScanSkipsFailures ==
    last.op = "get_all_tasks"
        => LET good == SelectSeq(last.scan, LAMBDA d : ~FromDictRaises(d))
           IN  /\ Len(last.tasks) = Len(good)
               /\ \A i \in 1..Len(good) : last.tasks[i]["_id"] = good[i]["_id"]

----------------------------------------------------------------------------
(* The claims about the UI's handlers and the LLM client, checked under SpecUi *)

\* C11: delete_task(id) removes only the document of that id: every other
\* stored document, the children of the deleted one included, is still stored
\* and unchanged after the call.
C11_NoCascade ==
    [][last'.op = "delete_task"
          => /\ \A d \in store : d["_id"] # last'.id => d \in store'
             /\ store' \subseteq store]_vars

\* A delete_task that removed a document and left a child of it stored.
C11_Witness ==
    /\ last.op = "delete_task"
    /\ last.ret = "true"
    /\ \E d \in store : d["parent_id"] = last.id

\* C17: given a JSON array of n elements of the TaskInput shape,
\* request_subtask returns n Tasks, in order, with the elements' titles and
\* bodies, each with an identifier that no other of them, the parent, or a
\* stored document has, both timestamps equal to a clock reading taken
\* during the call, status TODO and priority MEDIUM.
C17_FreshSubtasks ==
    [][(/\ last'.op = "request_subtask"
        /\ last'.arg.t = "array"
        /\ \A i \in 1..Len(last'.arg.elems) :
              /\ "title" \in DOMAIN last'.arg.elems[i]
              /\ DOMAIN last'.arg.elems[i] \subseteq TaskInputFields)
          => LET elems == last'.arg.elems
                 tasks == last'.tasks
             IN  /\ last'.ret = "tasks"
                 /\ Len(tasks) = Len(elems)
                 /\ \A i \in 1..Len(elems) :
                       /\ tasks[i]["title"] = elems[i]["title"]
                       /\ tasks[i]["body"] =
                             IF "body" \in DOMAIN elems[i] THEN elems[i]["body"]
                             ELSE Str("")
                       /\ tasks[i]["_id"] # cur["_id"]
                       /\ tasks[i]["_id"] \notin StoredIds(store)
                       /\ \A j \in 1..Len(elems) :
                             tasks[i]["_id"] = tasks[j]["_id"] => i = j
                       /\ tasks[i]["_created_at"] = tasks[i]["_updated_at"]
                       /\ DtLe(NowUtc(now), tasks[i]["_created_at"])
                       /\ DtLe(tasks[i]["_created_at"], NowUtc(now'))
                       /\ tasks[i]["status"] = Enum("Status", "TODO")
                       /\ tasks[i]["priority"] = Enum("Priority", "MEDIUM")]_vars

\* A request_subtask for a stored parent that returned two Tasks.
C17_Witness ==
    /\ last.op = "request_subtask"
    /\ last.ret = "tasks"
    /\ Len(last.tasks) = 2
    /\ last.id \in StoredIds(store)

\* C18, as claimed: every Task request_subtask(parent_task) returns has
\* parent_id equal to parent_task's id.
C18_ParentIdSet ==
    last.op \in {"request_subtask", "generate_subtasks"}
        => \A i \in 1..Len(last.tasks) : last.tasks[i]["parent_id"] = last.id

\* C19: when the model's text is no JSON array, or an element of the array
\* lacks title, request_subtask raises and returns no Task for any element,
\* and generate_subtasks makes no add_task call: the collection is as it was.
C19_WholeBatchFails ==
    [][(/\ last'.op \in {"request_subtask", "generate_subtasks"}
        /\ \/ last'.arg.t # "array"
           \/ \E i \in 1..Len(last'.arg.elems) :
                 "title" \notin DOMAIN last'.arg.elems[i])
          => /\ last'.tasks = << >>
             /\ store' = store
             /\ last'.op = "request_subtask" => last'.ret = "raised"
             /\ last'.op = "generate_subtasks"
                   => (last'.ret \in {"error", "parent_not_found"} /\ last'.calls = 1)]_vars

\* A generate_subtasks for a stored parent, answered with an array whose
\* first element is valid and whose second lacks title, which ended in error.
C19_Witness ==
    /\ last.op = "generate_subtasks"
    /\ last.id \in StoredIds(store)
    /\ last.arg.t = "array"
    /\ Len(last.arg.elems) = 2
    /\ "title" \in DOMAIN last.arg.elems[1]
    /\ "title" \notin DOMAIN last.arg.elems[2]
    /\ last.ret = "error"

\* C20, as claimed: an array element carrying a key that is no field of
\* TaskInput makes the whole batch fail: request_subtask raises and returns
\* no Task.
C20_StrictValidation ==
    (/\ last.op = "request_subtask"
     /\ last.arg.t = "array"
     /\ \E i \in 1..Len(last.arg.elems) :
           ~(DOMAIN last.arg.elems[i] \subseteq TaskInputFields))
        => (last.ret = "raised" /\ last.tasks = << >>)

----------------------------------------------------------------------------
(* The claims about what the collection holds, checked under Spec *)

\* C21, as claimed: every stored document holds status and priority as member
\* names, and due_date (when set), _created_at and _updated_at as ISO text
\* that states its UTC offset.
C21_StoredForm ==
    \A d \in store :
        /\ d["status"] \in {Str(n) : n \in StatusNames}
        /\ d["priority"] \in {Str(n) : n \in PriorityNames}
        /\ \A k \in {"due_date", "_created_at", "_updated_at"} :
              (k = "due_date" /\ ~Truthy(d[k]))
                 \/ (d[k].t = "isostr" /\ d[k].aware)

\* C23, as claimed: after acknowledged add_task calls and update_task calls
\* that returned True, get_task(id) of an id the collection holds returns a
\* Task, not None.
C23_ReadableAfterWrite ==
    (last.op = "get_task" /\ last.id \in StoredIds(store)) => last.ret = "task"

====
